---- MODULE Spec2Model ----
(***************************************************************************)
(* Model of chat_stats.py: the record normalizer, the ingest loop of       *)
(* get_stats, and the two-cursor scan of calculate_total_time; and of the  *)
(* load, sort and deduplicate steps of view_chat_history.py.               *)
(*                                                                         *)
(* Instants and durations are whole minutes: the grid step of the model    *)
(* stands for the resolution of datetime (one microsecond in Python), and  *)
(* the two thresholds are written in the same unit.                        *)
(*                                                                         *)
(* A timestamp string "2024-01-01THH:MM:00" + suffix is the record         *)
(* [hh, mm, sfx]; the suffix "Z" is the well-formed one, the suffix "Z?"   *)
(* carries trailing garbage that datetime.fromisoformat rejects, and the   *)
(* empty string is the record with hours, minutes and suffix all empty.    *)
(* The suffix "+01:00" is a UTC offset of one hour: the string shows the   *)
(* local time, one hour ahead of the instant.                              *)
(***************************************************************************)
EXTENDS Integers, Sequences, FiniteSets, TLC

VARIABLES
    messages,             \* the argument of calculate_total_time
    pc,                   \* position in calculate_total_time
    i,                    \* outer cursor (0-based, as in the code)
    j,                    \* inner cursor (0-based)
    start_time,           \* local: parsed time of the question
    response_events,      \* local: events collected so far, in list order
    assistant_msg_count,  \* local
    tool_use_count,       \* local
    total_time,           \* accumulator returned by the function
    long_responses,       \* accumulator returned by the function
    bursts,               \* the locals of every try block that ran to line 287
    cli_name,             \* get_stats: argument
    group_by_project,     \* get_stats: argument
    files,                \* get_stats: the lines of the files of jsonl_files
    f,                    \* get_stats: the file being read (1-based)
    l,                    \* get_stats: the line being read (1-based)
    all_messages,         \* get_stats: local
    messages_by_project,  \* get_stats: local, in insertion order
    phase,                \* get_stats: "ingest", "global", "projects" or "end"
    projects_done,        \* get_stats: iterations of the loop of line 543 begun
    messages_by_date,     \* get_stats: local, date string -> count
    dedup_messages,       \* deduplicate_messages: the argument of the last call
    dedup_result,         \* deduplicate_messages: the value the last call returned
    view_messages,        \* view_chat_history: all_messages
    view_pc,              \* view_chat_history: "loaded", "sorted", "deduped", "end"
    no_deduplicate        \* view_chat_history: args.no_deduplicate

scanVars == <<messages, pc, i, j, start_time, response_events, assistant_msg_count,
              tool_use_count, total_time, long_responses, bursts>>

statsVars == <<cli_name, group_by_project, files, f, l, all_messages,
               messages_by_project, phase, projects_done, messages_by_date>>

dedupVars == <<dedup_messages, dedup_result>>

viewVars == <<view_messages, view_pc, no_deduplicate>>

vars == <<scanVars, statsVars, dedupVars, viewVars>>

-----------------------------------------------------------------------------
(* Bounds of the model *)

MaxMsgs == 4

-----------------------------------------------------------------------------
(* Program constants *)

IDLE_THRESHOLD == 30

LONG_RESPONSE_THRESHOLD == 60

-----------------------------------------------------------------------------
(* Timestamp strings *)

ParseError == -1

\* Python's str comparison on two suffixes: a proper prefix is smaller, and
\* "+" comes before "Z"
SfxLess(a, b) ==
    a # b /\ (a = "" \/ (a = "+01:00" /\ b # "") \/ (a = "Z" /\ b = "Z?"))

\* the empty string, the default of data.get('timestamp', ''): it sorts before
\* every timestamp string and does not parse
EmptyTimestamp == [hh |-> 0, mm |-> 0, sfx |-> ""]

\* Python's str comparison on two timestamp strings of the fixed-width form
StrLess(a, b) ==
    \/ a.hh < b.hh
    \/ a.hh = b.hh /\ a.mm < b.mm
    \/ a.hh = b.hh /\ a.mm = b.mm /\ SfxLess(a.sfx, b.sfx)

\* a parser that ignores whatever follows the seconds
fromisoformatLenient(ts) == ts.hh * 60 + ts.mm

\* datetime.fromisoformat(ts.replace('Z', '+00:00')): minutes since midnight,
\* or ParseError when the call raises ValueError
fromisoformat(ts) ==
    IF ts.sfx = "Z" THEN ts.hh * 60 + ts.mm
    ELSE IF ts.sfx = "+01:00" THEN ts.hh * 60 + ts.mm - 60
    ELSE ParseError

\* the timestamp string of the instant t, in UTC or at the offset
isoformat(t, sfx) ==
    IF sfx = "+01:00" THEN [hh |-> (t + 60) \div 60, mm |-> t % 60, sfx |-> sfx]
    ELSE [hh |-> t \div 60, mm |-> t % 60, sfx |-> sfx]

-----------------------------------------------------------------------------
(* Text and content blocks *)

\* str.strip(): drop leading and trailing blanks
RECURSIVE lstrip(_)
lstrip(s) == IF s # <<>> /\ Head(s) = " " THEN lstrip(Tail(s)) ELSE s

RECURSIVE rstrip(_)
rstrip(s) ==
    IF s # <<>> /\ s[Len(s)] = " " THEN rstrip(SubSeq(s, 1, Len(s) - 1)) ELSE s

\* the text taken as it is
NoStrip(s) == s

strip(s) == rstrip(lstrip(s))

\* lines 191-197: the loop over the content blocks, left at the first text
\* block whose stripped text is non-empty
RECURSIVE has_content_from(_, _)
has_content_from(content, k) ==
    IF k > Len(content) THEN FALSE
    ELSE IF content[k].type = "text" /\ strip(content[k].text) # <<>> THEN TRUE
    ELSE has_content_from(content, k + 1)

has_content(msg) == has_content_from(msg.message.content, 1)

-----------------------------------------------------------------------------
(* Classification of messages in the scan *)

\* a test that takes every user message
IsUserAny(msg) == msg.type = "user"

\* line 189
IsUserNoToolResult(msg) == msg.type = "user" /\ ~msg.has_tool_result

\* a test that lets every user message through as a response
IsResponseLoose(msg) ==
    msg.type = "assistant" \/ msg.has_tool_result \/ msg.type = "user"

\* line 217
IsResponse(msg) == msg.type = "assistant" \/ msg.has_tool_result

\* line 229
IsBreak(msg) == msg.type = "user" /\ ~msg.has_tool_result

Msg(k) == messages[k + 1]

-----------------------------------------------------------------------------
(* Sorting *)

\* insert e after every element whose time is <= e.time (stable)
RECURSIVE InsertByTime(_, _)
InsertByTime(s, e) ==
    IF s = <<>> THEN <<e>>
    ELSE IF e.time < Head(s).time THEN <<e>> \o s
    ELSE <<Head(s)>> \o InsertByTime(Tail(s), e)

\* line 236: response_events.sort(key=lambda x: x['time'])
RECURSIVE SortEvents(_)
SortEvents(s) ==
    IF s = <<>> THEN <<>>
    ELSE InsertByTime(SortEvents(SubSeq(s, 1, Len(s) - 1)), s[Len(s)])

RECURSIVE InsertByTimestamp(_, _)
InsertByTimestamp(s, m) ==
    IF s = <<>> THEN <<m>>
    ELSE IF StrLess(m.timestamp, Head(s).timestamp) THEN <<m>> \o s
    ELSE <<Head(s)>> \o InsertByTimestamp(Tail(s), m)

\* the list left in the order it has
NoSort(s) == s

\* line 437: all_messages.sort(key=lambda x: x['timestamp'])
RECURSIVE SortByTimestamp(_)
SortByTimestamp(s) ==
    IF s = <<>> THEN <<>>
    ELSE InsertByTimestamp(SortByTimestamp(SubSeq(s, 1, Len(s) - 1)), s[Len(s)])

-----------------------------------------------------------------------------
(* The walk over consecutive events, lines 237-260 *)

\* a test that takes either flag alone
is_tool_execution_either(current_event, next_event) ==
    current_event.has_tool_use \/ next_event.has_tool_result

\* lines 246-249
is_tool_execution(current_event, next_event) ==
    current_event.has_tool_use /\ next_event.has_tool_result

\* line 251
IsActiveGap(current_event, next_event) ==
    \/ is_tool_execution(current_event, next_event)
    \/ next_event.time - current_event.time <= IDLE_THRESHOLD

\* a walk that stops one pair early
WalkRangeShort(events) == 1 .. (Len(events) - 2)

\* line 240: range(len(response_events) - 1), as 1-based positions
WalkRange(events) == 1 .. (Len(events) - 1)

RECURSIVE WalkFrom(_, _, _)
WalkFrom(events, k, acc) ==
    IF k \notin WalkRange(events) THEN acc
    ELSE LET current_event == events[k]
             next_event    == events[k + 1]
             time_gap      == next_event.time - current_event.time
         IN  IF IsActiveGap(current_event, next_event)
             THEN WalkFrom(events, k + 1,
                      [acc EXCEPT !.active_duration = @ + time_gap])
             ELSE WalkFrom(events, k + 1,
                      [acc EXCEPT !.idle_periods =
                          Append(@, [start    |-> current_event.time,
                                     end      |-> next_event.time,
                                     duration |-> time_gap])])

Walk(events) == WalkFrom(events, 1, [active_duration |-> 0, idle_periods |-> <<>>])

\* line 263
TotalDuration(events) ==
    IF Len(events) > 1 THEN events[Len(events)].time - events[1].time ELSE 0

\* line 265
IsCredited(active_duration) == active_duration > 0

\* a strict comparison in place of line 274
IsLongStrict(total_duration) == total_duration > LONG_RESPONSE_THRESHOLD

\* line 274
IsLong(total_duration) == total_duration >= LONG_RESPONSE_THRESHOLD

-----------------------------------------------------------------------------
(* calculate_total_time, lines 167-294, one action per loop step *)

\* lines 210, 220-224
Event(t, use, res) == [time |-> t, has_tool_use |-> use, has_tool_result |-> res]

\* the question at the outer cursor passes the tests of lines 189-202
IsQuestionAt(k) == IsUserNoToolResult(Msg(k)) /\ has_content(Msg(k))

\* lines 185-189, 292: the message is not a user message without tool result
SkipNonUser ==
    /\ pc = "outer"
    /\ i < Len(messages)
    /\ ~IsUserNoToolResult(Msg(i))
    /\ i' = i + 1
    /\ UNCHANGED <<messages, pc, j, start_time, response_events,
                   assistant_msg_count, tool_use_count, total_time,
                   long_responses, bursts>>
    /\ UNCHANGED <<statsVars, dedupVars, viewVars>>

\* a skip that goes back to the loop test without advancing the cursor
SkipEmptyStuck ==
    /\ pc = "outer"
    /\ i < Len(messages)
    /\ IsUserNoToolResult(Msg(i))
    /\ ~has_content(Msg(i))
    /\ UNCHANGED <<messages, pc, i, j, start_time, response_events,
                   assistant_msg_count, tool_use_count, total_time,
                   long_responses, bursts>>
    /\ UNCHANGED <<statsVars, dedupVars, viewVars>>

\* lines 189-202: a user message without non-blank text is skipped
SkipEmpty ==
    /\ pc = "outer"
    /\ i < Len(messages)
    /\ IsUserNoToolResult(Msg(i))
    /\ ~has_content(Msg(i))
    /\ i' = i + 1
    /\ UNCHANGED <<messages, pc, j, start_time, response_events,
                   assistant_msg_count, tool_use_count, total_time,
                   long_responses, bursts>>
    /\ UNCHANGED <<statsVars, dedupVars, viewVars>>

\* lines 205-212: the question's timestamp parses, the inner scan starts
BeginBurst ==
    /\ pc = "outer"
    /\ i < Len(messages)
    /\ IsQuestionAt(i)
    /\ fromisoformat(Msg(i).timestamp) # ParseError
    /\ start_time' = fromisoformat(Msg(i).timestamp)
    /\ j' = i + 1
    /\ response_events' = <<Event(fromisoformat(Msg(i).timestamp), FALSE, FALSE)>>
    /\ assistant_msg_count' = 0
    /\ tool_use_count' = 0
    /\ pc' = "inner"
    /\ UNCHANGED <<messages, i, total_time, long_responses, bursts>>
    /\ UNCHANGED <<statsVars, dedupVars, viewVars>>

\* lines 206, 289-292: the question's timestamp raises, the burst is dropped
BeginBurstRaises ==
    /\ pc = "outer"
    /\ i < Len(messages)
    /\ IsQuestionAt(i)
    /\ fromisoformat(Msg(i).timestamp) = ParseError
    /\ i' = i + 1
    /\ UNCHANGED <<messages, pc, j, start_time, response_events,
                   assistant_msg_count, tool_use_count, total_time,
                   long_responses, bursts>>
    /\ UNCHANGED <<statsVars, dedupVars, viewVars>>

\* lines 214-228: an assistant message or a tool result becomes an event
Collect ==
    /\ pc = "inner"
    /\ j < Len(messages)
    /\ IsResponse(Msg(j))
    /\ fromisoformat(Msg(j).timestamp) # ParseError
    /\ response_events' = Append(response_events,
           Event(fromisoformat(Msg(j).timestamp),
                 Msg(j).has_tool_use, Msg(j).has_tool_result))
    /\ assistant_msg_count' = assistant_msg_count + 1
    /\ tool_use_count' = tool_use_count + (IF Msg(j).has_tool_use THEN 1 ELSE 0)
    /\ j' = j + 1
    /\ UNCHANGED <<messages, pc, i, start_time, total_time, long_responses, bursts>>
    /\ UNCHANGED <<statsVars, dedupVars, viewVars>>

\* lines 219, 289-292: the timestamp of a response raises inside the try
\* block; nothing of the burst reaches total_time or long_responses
CollectRaises ==
    /\ pc = "inner"
    /\ j < Len(messages)
    /\ IsResponse(Msg(j))
    /\ fromisoformat(Msg(j).timestamp) = ParseError
    /\ pc' = "outer"
    /\ i' = i + 1
    /\ UNCHANGED <<messages, j, start_time, response_events, assistant_msg_count,
                   tool_use_count, total_time, long_responses, bursts>>
    /\ UNCHANGED <<statsVars, dedupVars, viewVars>>

\* the record appended at lines 275-284 (the question preview is left out)
LongResponse(events, walk) ==
    [start_time         |-> start_time,
     end_time           |-> events[Len(events)].time,
     total_duration     |-> TotalDuration(events),
     active_duration    |-> walk.active_duration,
     idle_periods       |-> walk.idle_periods,
     assistant_messages |-> assistant_msg_count,
     tool_uses          |-> tool_use_count]

\* a burst end that resumes the outer scan where the inner scan stopped
EndBurstResume ==
    /\ pc = "inner"
    /\ IF j < Len(messages) THEN ~IsResponse(Msg(j)) /\ IsBreak(Msg(j)) ELSE TRUE
    /\ LET events == SortEvents(response_events)
           walk   == Walk(events)
           total_duration == TotalDuration(events)
           credited == IsCredited(walk.active_duration)
           reported == credited /\ IsLong(total_duration)
       IN  /\ total_time' = IF credited THEN total_time + walk.active_duration
                            ELSE total_time
           /\ long_responses' = IF reported
                                THEN Append(long_responses, LongResponse(events, walk))
                                ELSE long_responses
           /\ bursts' = Append(bursts,
                  [question        |-> i,
                   stop            |-> j,
                   events          |-> events,
                   active_duration |-> walk.active_duration,
                   idle_periods    |-> walk.idle_periods,
                   total_duration  |-> total_duration,
                   assistant_messages |-> assistant_msg_count,
                   tool_uses       |-> tool_use_count,
                   reported        |-> reported])
    /\ pc' = "outer"
    /\ i' = j
    /\ UNCHANGED <<messages, j, start_time, response_events, assistant_msg_count,
                   tool_use_count>>
    /\ UNCHANGED <<statsVars, dedupVars, viewVars>>

\* lines 214, 229-231 (the inner loop ends) and lines 236-292 (the burst is
\* measured and credited).  The else branch of line 233 needs a message that
\* is neither assistant nor user: the normalizers emit none (lines 38, 72).
EndBurst ==
    /\ pc = "inner"
    /\ IF j < Len(messages) THEN ~IsResponse(Msg(j)) /\ IsBreak(Msg(j)) ELSE TRUE
    /\ LET events == SortEvents(response_events)
           walk   == Walk(events)
           total_duration == TotalDuration(events)
           credited == IsCredited(walk.active_duration)
           reported == credited /\ IsLong(total_duration)
       IN  /\ total_time' = IF credited THEN total_time + walk.active_duration
                            ELSE total_time
           /\ long_responses' = IF reported
                                THEN Append(long_responses, LongResponse(events, walk))
                                ELSE long_responses
           /\ bursts' = Append(bursts,
                  [question        |-> i,
                   stop            |-> j,
                   events          |-> events,
                   active_duration |-> walk.active_duration,
                   idle_periods    |-> walk.idle_periods,
                   total_duration  |-> total_duration,
                   assistant_messages |-> assistant_msg_count,
                   tool_uses       |-> tool_use_count,
                   reported        |-> reported])
    /\ pc' = "outer"
    /\ i' = i + 1
    /\ UNCHANGED <<messages, j, start_time, response_events, assistant_msg_count,
                   tool_use_count>>
    /\ UNCHANGED <<statsVars, dedupVars, viewVars>>

\* lines 185, 294
Return ==
    /\ pc = "outer"
    /\ i >= Len(messages)
    /\ pc' = "done"
    /\ UNCHANGED <<messages, i, j, start_time, response_events,
                   assistant_msg_count, tool_use_count, total_time,
                   long_responses, bursts>>
    /\ UNCHANGED <<statsVars, dedupVars, viewVars>>

-----------------------------------------------------------------------------
(* Timelines handed to calculate_total_time by get_stats, line 445 *)

\* message.content of the three kinds of user text
TextHi    == <<[type |-> "text", text |-> <<"h", "i">>]>>
TextLate  == <<[type |-> "text", text |-> <<>>],
               [type |-> "text", text |-> <<" ", "h", " ">>]>>
TextBlank == <<[type |-> "thinking", text |-> <<"h">>],
               [type |-> "text", text |-> <<" ", " ">>]>>
ToolUseBlock == <<[type |-> "tool_use", text |-> <<>>]>>
ToolResultBlock == <<[type |-> "tool_result", text |-> <<>>]>>

\* the shapes of canonical message the timelines are drawn from: the role,
\* the two flags, the content, the distance to the previous message and the
\* suffix of the timestamp string.  A record with the key toolUseResult has
\* has_tool_result whatever its content is: one of the two carries a text.
Shapes ==
    { [type |-> "user", use |-> FALSE, res |-> FALSE, content |-> TextHi,
       gap |-> 0, sfx |-> "Z"],
      [type |-> "user", use |-> FALSE, res |-> FALSE, content |-> TextLate,
       gap |-> 60, sfx |-> "Z"],
      [type |-> "user", use |-> FALSE, res |-> FALSE, content |-> TextHi,
       gap |-> 0, sfx |-> "Z?"],
      [type |-> "user", use |-> FALSE, res |-> FALSE, content |-> TextBlank,
       gap |-> 0, sfx |-> "Z"],
      [type |-> "user", use |-> FALSE, res |-> TRUE, content |-> ToolResultBlock,
       gap |-> 59, sfx |-> "Z"],
      [type |-> "user", use |-> FALSE, res |-> TRUE, content |-> TextHi,
       gap |-> 61, sfx |-> "Z"],
      [type |-> "assistant", use |-> FALSE, res |-> FALSE, content |-> TextHi,
       gap |-> 30, sfx |-> "Z"],
      [type |-> "assistant", use |-> FALSE, res |-> FALSE, content |-> TextHi,
       gap |-> 31, sfx |-> "Z"],
      [type |-> "assistant", use |-> FALSE, res |-> FALSE, content |-> TextHi,
       gap |-> 60, sfx |-> "Z"],
      [type |-> "assistant", use |-> FALSE, res |-> FALSE, content |-> TextHi,
       gap |-> 0, sfx |-> "Z?"],
      [type |-> "assistant", use |-> TRUE, res |-> FALSE, content |-> ToolUseBlock,
       gap |-> 0, sfx |-> "Z"] }

RECURSIVE TimeAt(_, _)
TimeAt(shapes, k) == IF k = 0 THEN 0 ELSE TimeAt(shapes, k - 1) + shapes[k].gap

\* the canonical message of parse_claude_code_line, lines 48-56
Canonical(shape, t, id) ==
    [type            |-> shape.type,
     timestamp       |-> isoformat(t, shape.sfx),
     uuid            |-> id,
     message         |-> [has_key |-> TRUE, content |-> shape.content],
     has_tool_use    |-> shape.use,
     has_tool_result |-> shape.res]

\* one uuid per record
Uuids == <<"u1", "u2", "u3", "u4", "u5", "u6", "u7", "u8">>

Timeline(shapes) ==
    SortByTimestamp([k \in 1 .. Len(shapes) |->
                        Canonical(shapes[k], TimeAt(shapes, k), Uuids[k])])

Timelines ==
    { Timeline(s) : s \in UNION { [1 .. n -> Shapes] : n \in 0 .. MaxMsgs } }

Init ==
    /\ messages \in Timelines
    /\ pc = "outer"
    /\ i = 0
    /\ j = 0
    /\ start_time = 0
    /\ response_events = <<>>
    /\ assistant_msg_count = 0
    /\ tool_use_count = 0
    /\ total_time = 0
    /\ long_responses = <<>>
    /\ bursts = <<>>
    /\ cli_name = "claude-code"
    /\ group_by_project = FALSE
    /\ files = <<>>
    /\ f = 1
    /\ l = 1
    /\ all_messages = messages
    /\ messages_by_project = <<>>
    /\ phase = "global"
    /\ projects_done = 0
    /\ messages_by_date = <<>>
    /\ dedup_messages = <<>>
    /\ dedup_result = <<>>
    /\ view_messages = <<>>
    /\ view_pc = "end"
    /\ no_deduplicate = FALSE

Next ==
    \/ SkipNonUser
    \/ SkipEmpty
    \/ BeginBurst
    \/ BeginBurstRaises
    \/ Collect
    \/ CollectRaises
    \/ EndBurst
    \/ Return

Spec == Init /\ [][Next]_vars

\* the shapes that differ in what the two cursors test (role, flags, text,
\* timestamp suffix), one distance to the previous message each
CursorShapes == { s \in Shapes : s.gap \in {0, 59, 61} }

CursorTimelines ==
    { Timeline(s) : s \in UNION { [1 .. n -> CursorShapes] : n \in 0 .. MaxMsgs } }

InitCursor == Init /\ messages \in CursorTimelines

\* the function is one sequential loop: a step that can be taken is taken
FairSpec == InitCursor /\ [][Next]_vars /\ WF_vars(Next)

-----------------------------------------------------------------------------
(* Raw records: one line of a .jsonl file after json.loads *)

\* a JSON value found under 'content': no such key, a string, or a list of
\* block objects
NoContent == [t |-> "absent", chars |-> <<>>, blocks |-> <<>>]
StrContent(cs) == [t |-> "str", chars |-> cs, blocks |-> <<>>]
ListContent(bs) == [t |-> "list", chars |-> <<>>, blocks |-> bs]

\* a JSON value found under 'message' or 'payload': no such key, null, or an
\* object with the keys the parsers read
NoBody == [t |-> "absent", role |-> "", cwd |-> "", content |-> NoContent]
NullBody == [t |-> "null", role |-> "", cwd |-> "", content |-> NoContent]
ObjBody(role, cwd, content) ==
    [t |-> "obj", role |-> role, cwd |-> cwd, content |-> content]

\* a line: json is FALSE when json.loads raises JSONDecodeError; a missing
\* 'type', 'timestamp' or 'uuid' is the default the parsers give it
Record(type, ts, uuid, tur, message, payload) ==
    [json |-> TRUE, type |-> type, timestamp |-> ts, uuid |-> uuid,
     toolUseResult |-> tur, message |-> message, payload |-> payload]

InvalidJson ==
    [json |-> FALSE, type |-> "", timestamp |-> EmptyTimestamp, uuid |-> "",
     toolUseResult |-> FALSE, message |-> NoBody, payload |-> NoBody]

-----------------------------------------------------------------------------
(* The normalizers *)

None == [status |-> "none"]
Raised == [status |-> "raise"]
Parsed(message) == [status |-> "ok", message |-> message]

\* iterating the value of 'content' and calling .get on each item raises
\* AttributeError when the value is a non-empty string (lines 43-44, 81-82)
ItemGetRaises(content) == content.t = "str" /\ content.chars # <<>>

\* the blocks the canonical message carries: .get('content', [])
BlocksOf(content) == IF content.t = "list" THEN content.blocks ELSE <<>>

\* lines 42-45
AnyToolUse(content) ==
    \E b \in 1 .. Len(BlocksOf(content)) : BlocksOf(content)[b].type = "tool_use"

\* parse_claude_code_line, lines 31-58
parse_claude_code_line(data) ==
    IF data.type \notin {"user", "assistant"} THEN None
    ELSE IF data.message.t = "null" THEN Raised
    ELSE IF ItemGetRaises(data.message.content) THEN Raised
    ELSE Parsed([type            |-> data.type,
                 timestamp       |-> data.timestamp,
                 uuid            |-> data.uuid,
                 message         |-> [has_key |-> data.message.content.t # "absent",
                                      content |-> BlocksOf(data.message.content)],
                 has_tool_use    |-> AnyToolUse(data.message.content),
                 has_tool_result |-> data.toolUseResult])

\* lines 81-89: input_text and output_text become text
Remap(block) ==
    IF block.type \in {"input_text", "output_text"}
    THEN [type |-> "text", text |-> block.text]
    ELSE block

\* parse_kernelcat_line, lines 61-101
parse_kernelcat_line(data) ==
    IF data.type # "response_item" THEN None
    ELSE IF data.payload.t = "null" THEN Raised
    ELSE IF data.payload.role \notin {"user", "assistant"} THEN None
    ELSE IF ItemGetRaises(data.payload.content) THEN Raised
    ELSE Parsed([type            |-> data.payload.role,
                 timestamp       |-> data.timestamp,
                 uuid            |-> "",
                 message         |-> [has_key |-> TRUE,
                                      content |->
                                        [b \in 1 .. Len(BlocksOf(data.payload.content))
                                           |-> Remap(BlocksOf(data.payload.content)[b])]],
                 has_tool_use    |-> FALSE,
                 has_tool_result |-> FALSE])

\* line 368
parser_func(cli, data) ==
    IF cli = "claude-code" THEN parse_claude_code_line(data)
    ELSE parse_kernelcat_line(data)

\* get_session_project, lines 104-123
get_session_project(lines) ==
    IF lines = <<>> THEN ""
    ELSE IF ~lines[1].json THEN ""
    ELSE IF lines[1].type # "session_meta" THEN ""
    ELSE IF lines[1].payload.t = "null" THEN ""
    ELSE lines[1].payload.cwd

-----------------------------------------------------------------------------
(* deduplicate_messages, lines 146-164 *)

PrefixLen == 100

ReprOpen == <<"{", "'", "c", "o", "n", "t", "e", "n", "t", "'", ":", " ", "[">>
ReprClose == <<"]", "}">>
ReprEmpty == <<"{", "}">>
ReprType == <<"{", "'", "t", "y", "p", "e", "'", ":", " ", "'">>
ReprText == <<"'", ",", " ", "'", "t", "e", "x", "t", "'", ":", " ", "'">>
ReprEnd == <<"'", "}">>
ReprSep == <<",", " ">>

TypeChars(type) ==
    CASE type = "text" -> <<"t", "e", "x", "t">>
      [] type = "thinking" -> <<"t", "h", "i", "n", "k", "i", "n", "g">>
      [] type = "tool_use" -> <<"t", "o", "o", "l", "_", "u", "s", "e">>
      [] type = "tool_result" -> <<"t", "o", "o", "l", "_", "r", "e", "s", "u", "l", "t">>
      [] OTHER -> <<"?">>

RECURSIVE ReprBlocks(_, _)
ReprBlocks(blocks, k) ==
    IF k > Len(blocks) THEN <<>>
    ELSE (IF k > 1 THEN ReprSep ELSE <<>>)
         \o ReprType \o TypeChars(blocks[k].type)
         \o ReprText \o blocks[k].text \o ReprEnd
         \o ReprBlocks(blocks, k + 1)

\* str(msg.get('message', {}))
Repr(message) ==
    IF ~message.has_key THEN ReprEmpty
    ELSE ReprOpen \o ReprBlocks(message.content, 1) \o ReprClose

\* s[:n]
Prefix(s, n) == SubSeq(s, 1, IF Len(s) < n THEN Len(s) ELSE n)

\* an identifier that never looks at the uuid
identifierWithoutUuid(msg) ==
    [uuid |-> "", timestamp |-> msg.timestamp,
     content |-> Prefix(Repr(msg.message), PrefixLen)]

\* lines 152-158
identifier(msg) ==
    IF msg.uuid # ""
    THEN [uuid |-> msg.uuid, timestamp |-> EmptyTimestamp, content |-> <<>>]
    ELSE [uuid |-> "", timestamp |-> msg.timestamp,
          content |-> Prefix(Repr(msg.message), PrefixLen)]

\* a loop that remembers only the identifier it saw last
RECURSIVE DedupFromAdjacent(_, _, _, _)
DedupFromAdjacent(msgs, k, seen, unique_messages) ==
    IF k > Len(msgs) THEN unique_messages
    ELSE IF identifier(msgs[k]) \notin seen
         THEN DedupFromAdjacent(msgs, k + 1, {identifier(msgs[k])},
                                Append(unique_messages, msgs[k]))
         ELSE DedupFromAdjacent(msgs, k + 1, seen, unique_messages)

\* a loop that empties the set of seen identifiers at every duplicate
RECURSIVE DedupFromForgetful(_, _, _, _)
DedupFromForgetful(msgs, k, seen, unique_messages) ==
    IF k > Len(msgs) THEN unique_messages
    ELSE IF identifier(msgs[k]) \notin seen
         THEN DedupFromForgetful(msgs, k + 1, seen \cup {identifier(msgs[k])},
                                 Append(unique_messages, msgs[k]))
         ELSE DedupFromForgetful(msgs, k + 1, {}, unique_messages)

RECURSIVE DedupFrom(_, _, _, _)
DedupFrom(msgs, k, seen, unique_messages) ==
    IF k > Len(msgs) THEN unique_messages
    ELSE IF identifier(msgs[k]) \notin seen
         THEN DedupFrom(msgs, k + 1, seen \cup {identifier(msgs[k])},
                        Append(unique_messages, msgs[k]))
         ELSE DedupFrom(msgs, k + 1, seen, unique_messages)

deduplicate_messages(msgs) == DedupFrom(msgs, 1, {}, <<>>)

-----------------------------------------------------------------------------
(* get_stats, lines 315-561: the ingest loop and the calls of               *)
(* calculate_total_time.  Counters that only feed the printed report        *)
(* (sessions, files_by_type) are left out.                                  *)

Line == files[f][l]

Reading == phase = "ingest" /\ f <= Len(files)

\* line 382-384
ProjectOf(file) ==
    IF cli_name = "kcat" /\ group_by_project THEN get_session_project(file) ELSE ""

\* lines 392-393, 426-427: the line is no JSON
SkipInvalidJson ==
    /\ Reading
    /\ l <= Len(files[f])
    /\ ~Line.json
    /\ l' = l + 1
    /\ UNCHANGED <<cli_name, group_by_project, files, f, all_messages,
                   messages_by_project, phase, projects_done, messages_by_date>>
    /\ UNCHANGED <<scanVars, dedupVars, viewVars>>

\* lines 396-398: the parser returns None
SkipNonMessage ==
    /\ Reading
    /\ l <= Len(files[f])
    /\ Line.json
    /\ parser_func(cli_name, Line).status = "none"
    /\ l' = l + 1
    /\ UNCHANGED <<cli_name, group_by_project, files, f, all_messages,
                   messages_by_project, phase, projects_done, messages_by_date>>
    /\ UNCHANGED <<scanVars, dedupVars, viewVars>>

\* lines 396, 428-429: the parser raises AttributeError, which is no
\* JSONDecodeError; the handler of line 428 takes it and goes to the next file
ParserRaises ==
    /\ Reading
    /\ l <= Len(files[f])
    /\ Line.json
    /\ parser_func(cli_name, Line).status = "raise"
    /\ f' = f + 1
    /\ l' = 1
    /\ UNCHANGED <<cli_name, group_by_project, files, all_messages,
                   messages_by_project, phase, projects_done, messages_by_date>>
    /\ UNCHANGED <<scanVars, dedupVars, viewVars>>

\* dt.strftime('%Y-%m-%d'): every timestamp of the model lies on one day
strftime(t) == "2024-01-01"

\* lines 412-424: the date of a timestamp that is non-empty and parses is
\* counted; an empty string is skipped, a ValueError is swallowed
CountDate(by_date, ts) ==
    IF ts = EmptyTimestamp \/ fromisoformat(ts) = ParseError THEN by_date
    ELSE LET date_str == strftime(fromisoformat(ts))
         IN  IF date_str \in DOMAIN by_date
             THEN [by_date EXCEPT ![date_str] = @ + 1]
             ELSE [d \in DOMAIN by_date \cup {date_str} |->
                      IF d = date_str THEN 1 ELSE by_date[d]]

\* lines 404-405: messages_by_project[project].append(message)
AddToProject(by_project, project, message) ==
    IF \E p \in 1 .. Len(by_project) : by_project[p].project = project
    THEN [p \in 1 .. Len(by_project) |->
             IF by_project[p].project = project
             THEN [by_project[p] EXCEPT !.messages = Append(@, message)]
             ELSE by_project[p]]
    ELSE Append(by_project, [project |-> project, messages |-> <<message>>])

\* lines 396-405: the message is collected
AddMessage ==
    /\ Reading
    /\ l <= Len(files[f])
    /\ Line.json
    /\ parser_func(cli_name, Line).status = "ok"
    /\ LET message == parser_func(cli_name, Line).message
           project == ProjectOf(files[f])
       IN  /\ all_messages' = Append(all_messages, message)
           /\ messages_by_project' =
                 IF cli_name = "kcat" /\ group_by_project /\ project # ""
                 THEN AddToProject(messages_by_project, project, message)
                 ELSE messages_by_project
           /\ messages_by_date' = CountDate(messages_by_date, message.timestamp)
    /\ l' = l + 1
    /\ UNCHANGED <<cli_name, group_by_project, files, f, phase, projects_done>>
    /\ UNCHANGED <<scanVars, dedupVars, viewVars>>

\* lines 371, 388: the file is exhausted
EndOfFile ==
    /\ Reading
    /\ l > Len(files[f])
    /\ f' = f + 1
    /\ l' = 1
    /\ UNCHANGED <<cli_name, group_by_project, files, all_messages,
                   messages_by_project, phase, projects_done, messages_by_date>>
    /\ UNCHANGED <<scanVars, dedupVars, viewVars>>

\* the state of calculate_total_time at line 184, called with msgs
Call(msgs) ==
    /\ messages' = msgs
    /\ pc' = "outer"
    /\ i' = 0
    /\ j' = 0
    /\ start_time' = 0
    /\ response_events' = <<>>
    /\ assistant_msg_count' = 0
    /\ tool_use_count' = 0
    /\ total_time' = 0
    /\ long_responses' = <<>>
    /\ bursts' = <<>>

\* lines 431-445: deduplicate, sort, and the global call
GlobalCall ==
    /\ phase = "ingest"
    /\ f > Len(files)
    /\ dedup_messages' = all_messages
    /\ dedup_result' = deduplicate_messages(all_messages)
    /\ all_messages' = SortByTimestamp(deduplicate_messages(all_messages))
    /\ Call(SortByTimestamp(deduplicate_messages(all_messages)))
    /\ phase' = "global"
    /\ UNCHANGED <<cli_name, group_by_project, files, f, l, messages_by_project,
                   projects_done, messages_by_date>>
    /\ UNCHANGED viewVars

\* insert e after every entry with at least as many messages (stable)
RECURSIVE InsertByCount(_, _)
InsertByCount(s, e) ==
    IF s = <<>> THEN <<e>>
    ELSE IF Len(e.messages) > Len(Head(s).messages) THEN <<e>> \o s
    ELSE <<Head(s)>> \o InsertByCount(Tail(s), e)

\* lines 543-544: sorted(..., key=lambda x: len(x[1]), reverse=True)
RECURSIVE SortByCount(_)
SortByCount(s) ==
    IF s = <<>> THEN <<>>
    ELSE InsertByCount(SortByCount(SubSeq(s, 1, Len(s) - 1)), s[Len(s)])

\* line 538
Grouping == cli_name = "kcat" /\ group_by_project /\ messages_by_project # <<>>

\* lines 543-551: the next project is deduplicated and measured
ProjectCall ==
    /\ phase \in {"global", "projects"}
    /\ pc = "done"
    /\ Grouping
    /\ projects_done < Len(messages_by_project)
    /\ dedup_messages' = SortByCount(messages_by_project)[projects_done + 1].messages
    /\ dedup_result' = deduplicate_messages(
               SortByCount(messages_by_project)[projects_done + 1].messages)
    /\ Call(deduplicate_messages(
               SortByCount(messages_by_project)[projects_done + 1].messages))
    /\ projects_done' = projects_done + 1
    /\ phase' = "projects"
    /\ UNCHANGED <<cli_name, group_by_project, files, f, l, all_messages,
                   messages_by_project, messages_by_date>>
    /\ UNCHANGED viewVars

\* lines 538, 559-561: no project is left
Finish ==
    /\ phase \in {"global", "projects"}
    /\ pc = "done"
    /\ ~Grouping \/ projects_done >= Len(messages_by_project)
    /\ phase' = "end"
    /\ UNCHANGED <<cli_name, group_by_project, files, f, l, all_messages,
                   messages_by_project, projects_done, messages_by_date>>
    /\ UNCHANGED <<scanVars, dedupVars, viewVars>>

-----------------------------------------------------------------------------
(* Directories read by get_stats *)

MaxLines == 4

ClaudeLines ==
    { InvalidJson,
      Record("summary", EmptyTimestamp, "", FALSE, NoBody, NoBody),
      Record("user", isoformat(0, "Z"), "q1", FALSE,
             ObjBody("user", "", ListContent(TextHi)), NoBody),
      Record("assistant", isoformat(30, "Z"), "a1", FALSE,
             ObjBody("assistant", "", ListContent(TextHi)), NoBody),
      Record("assistant", isoformat(30, "Z?"), "a2", FALSE,
             ObjBody("assistant", "", ListContent(TextHi)), NoBody),
      Record("user", isoformat(10, "Z"), "s1", FALSE,
             ObjBody("user", "", StrContent(<<"h", "i">>)), NoBody),
      Record("user", isoformat(20, "Z"), "n1", FALSE, NullBody, NoBody),
      Record("user", isoformat(20, "Z"), "e1", FALSE, NoBody, NoBody),
      Record("user", EmptyTimestamp, "", FALSE,
             ObjBody("user", "", ListContent(TextHi)), NoBody) }

InputText == <<[type |-> "input_text", text |-> <<"h", "i">>]>>
OutputText == <<[type |-> "output_text", text |-> <<"o", "k">>]>>

KcatLines ==
    { InvalidJson,
      Record("session_meta", isoformat(0, "Z"), "", FALSE, NoBody,
             ObjBody("", "projA", NoContent)),
      Record("session_meta", isoformat(0, "Z"), "", FALSE, NoBody,
             ObjBody("", "projB", NoContent)),
      Record("response_item", isoformat(0, "Z"), "", FALSE, NoBody,
             ObjBody("user", "", ListContent(InputText))),
      Record("response_item", isoformat(30, "Z"), "", FALSE, NoBody,
             ObjBody("assistant", "", ListContent(OutputText))),
      Record("response_item", isoformat(10, "Z"), "", FALSE, NoBody,
             ObjBody("user", "", StrContent(<<"h", "i">>))) }

\* the lines a file of the given tool may hold
LinesOf(cli) == IF cli = "claude-code" THEN ClaudeLines ELSE KcatLines

\* a directory of two files: the lines, and where the second file begins
Directory(lines, cut) ==
    << SubSeq(lines, 1, cut), SubSeq(lines, cut + 1, Len(lines)) >>

Directories(cli) ==
    UNION { { Directory(lines, cut) : cut \in 0 .. Len(lines) } :
              lines \in UNION { [1 .. n -> LinesOf(cli)] : n \in 0 .. MaxLines } }

\* get_stats is entered with the default tool, or with kcat and
\* --group-by-project
Arguments ==
    { [cli_name |-> "claude-code", group_by_project |-> FALSE],
      [cli_name |-> "kcat", group_by_project |-> TRUE] }

InitStats ==
    /\ \E a \in Arguments :
          /\ cli_name = a.cli_name
          /\ group_by_project = a.group_by_project
          /\ files \in Directories(a.cli_name)
    /\ f = 1
    /\ l = 1
    /\ all_messages = <<>>
    /\ messages_by_project = <<>>
    /\ phase = "ingest"
    /\ projects_done = 0
    /\ messages_by_date = <<>>
    /\ dedup_messages = <<>>
    /\ dedup_result = <<>>
    /\ view_messages = <<>>
    /\ view_pc = "end"
    /\ no_deduplicate = FALSE
    /\ messages = <<>>
    /\ pc = "idle"
    /\ i = 0
    /\ j = 0
    /\ start_time = 0
    /\ response_events = <<>>
    /\ assistant_msg_count = 0
    /\ tool_use_count = 0
    /\ total_time = 0
    /\ long_responses = <<>>
    /\ bursts = <<>>

NextStats ==
    \/ SkipInvalidJson
    \/ SkipNonMessage
    \/ ParserRaises
    \/ AddMessage
    \/ EndOfFile
    \/ GlobalCall
    \/ SkipNonUser
    \/ SkipEmpty
    \/ BeginBurst
    \/ BeginBurstRaises
    \/ Collect
    \/ CollectRaises
    \/ EndBurst
    \/ Return
    \/ ProjectCall
    \/ Finish

SpecStats == InitStats /\ [][NextStats]_vars

-----------------------------------------------------------------------------
(* view_chat_history.py: load_all_messages and the deduplication of main *)

\* deduplicate_messages of view_chat_history.py, lines 129-156: the same loop
\* over the same identifier as in chat_stats.py
view_deduplicate_messages(msgs) == DedupFrom(msgs, 1, {}, <<>>)

\* load_all_messages, line 177: the loaded list is sorted by timestamp string
ViewSort ==
    /\ view_pc = "loaded"
    /\ view_messages' = SortByTimestamp(view_messages)
    /\ view_pc' = "sorted"
    /\ UNCHANGED no_deduplicate
    /\ UNCHANGED <<scanVars, statsVars, dedupVars>>

\* main, lines 512-514: nothing was loaded
ViewEmpty ==
    /\ view_pc = "sorted"
    /\ view_messages = <<>>
    /\ view_pc' = "end"
    /\ UNCHANGED <<view_messages, no_deduplicate>>
    /\ UNCHANGED <<scanVars, statsVars, dedupVars>>

\* main, lines 517-519: the sorted list is deduplicated
ViewDedupe ==
    /\ view_pc = "sorted"
    /\ view_messages # <<>>
    /\ ~no_deduplicate
    /\ dedup_messages' = view_messages
    /\ dedup_result' = view_deduplicate_messages(view_messages)
    /\ view_messages' = view_deduplicate_messages(view_messages)
    /\ view_pc' = "deduped"
    /\ UNCHANGED no_deduplicate
    /\ UNCHANGED <<scanVars, statsVars>>

\* main, lines 517, 525-526: --no-deduplicate keeps the sorted list
ViewNoDedupe ==
    /\ view_pc = "sorted"
    /\ view_messages # <<>>
    /\ no_deduplicate
    /\ view_pc' = "end"
    /\ UNCHANGED <<view_messages, no_deduplicate>>
    /\ UNCHANGED <<scanVars, statsVars, dedupVars>>

-----------------------------------------------------------------------------
(* Message lists as the two programs hold them once every file is read *)

MaxLoaded == 4

\* a text of 62 characters that differs from the all-"x" text at position pos
TextWith(pos, c) == [k \in 1 .. 62 |-> IF k = pos THEN c ELSE "x"]

\* a message with one text block
Loaded(uuid, t, text) ==
    [type            |-> "user",
     timestamp       |-> isoformat(t, "Z"),
     uuid            |-> uuid,
     message         |-> [has_key |-> TRUE,
                          content |-> <<[type |-> "text", text |-> text]>>],
     has_tool_use    |-> FALSE,
     has_tool_result |-> FALSE]

\* the body string of a one-block message has 39 characters before the text:
\* character 61 of the text is character 100 of the body, character 62 is
\* character 101.  Two records share a uuid; the records without uuid differ
\* in the timestamp, within the first 100 characters, or only after them.
LoadedMessages ==
    { Loaded("u1", 10, <<"h", "i">>),
      Loaded("u1", 5, <<" ", " ">>),
      Loaded("u2", 0, TextWith(62, "a")),
      Loaded("", 0, TextWith(62, "a")),
      Loaded("", 0, TextWith(62, "b")),
      Loaded("", 0, TextWith(61, "c")),
      Loaded("", 20, TextWith(62, "a")) }

LoadedLists == UNION { [1 .. n -> LoadedMessages] : n \in 0 .. MaxLoaded }

\* messages_by_date after the ingest of the list, lines 412-424
RECURSIVE CountDates(_)
CountDates(msgs) ==
    IF msgs = <<>> THEN <<>>
    ELSE CountDate(CountDates(SubSeq(msgs, 1, Len(msgs) - 1)),
                   msgs[Len(msgs)].timestamp)

\* get_stats at line 431 and view_chat_history at line 177, both holding the
\* same loaded list
InitLoaded ==
    /\ all_messages \in LoadedLists
    /\ view_messages = all_messages
    /\ view_pc = "loaded"
    /\ no_deduplicate \in BOOLEAN
    /\ messages_by_date = CountDates(all_messages)
    /\ dedup_messages = <<>>
    /\ dedup_result = <<>>
    /\ cli_name = "claude-code"
    /\ group_by_project = FALSE
    /\ files = <<>>
    /\ f = 1
    /\ l = 1
    /\ messages_by_project = <<>>
    /\ phase = "ingest"
    /\ projects_done = 0
    /\ messages = <<>>
    /\ pc = "idle"
    /\ i = 0
    /\ j = 0
    /\ start_time = 0
    /\ response_events = <<>>
    /\ assistant_msg_count = 0
    /\ tool_use_count = 0
    /\ total_time = 0
    /\ long_responses = <<>>
    /\ bursts = <<>>

NextLoaded ==
    \/ GlobalCall
    \/ ViewSort
    \/ ViewEmpty
    \/ ViewDedupe
    \/ ViewNoDedupe

SpecLoaded == InitLoaded /\ [][NextLoaded]_vars

-----------------------------------------------------------------------------
(* Timelines whose timestamp strings are not all in UTC, and the work-time  *)
(* percentage of get_stats, lines 419-422 and 482-487                       *)

\* messages stamped at the offset of one hour
OffsetShapes ==
    { [type |-> "user", use |-> FALSE, res |-> FALSE, content |-> TextHi,
       gap |-> 0, sfx |-> "+01:00"],
      [type |-> "assistant", use |-> FALSE, res |-> FALSE, content |-> TextHi,
       gap |-> 0, sfx |-> "+01:00"],
      [type |-> "assistant", use |-> FALSE, res |-> FALSE, content |-> TextHi,
       gap |-> 30, sfx |-> "+01:00"] }

ZoneShapes ==
    CursorShapes \cup OffsetShapes
       \cup { s \in Shapes : s.type = "assistant" /\ s.gap = 30 }

\* the lists as get_stats sorts them: by timestamp string
ZoneTimelines ==
    { Timeline(s) : s \in UNION { [1 .. n -> ZoneShapes] : n \in 0 .. MaxMsgs } }

RECURSIVE earliest_from(_, _, _)
earliest_from(msgs, k, earliest) ==
    IF k > Len(msgs) THEN earliest
    ELSE LET dt == fromisoformat(msgs[k].timestamp)
         IN  IF msgs[k].timestamp # EmptyTimestamp /\ dt # ParseError
                /\ (earliest = ParseError \/ dt < earliest)
             THEN earliest_from(msgs, k + 1, dt)
             ELSE earliest_from(msgs, k + 1, earliest)

\* lines 419-420; ParseError stands for None
earliest_date(msgs) == earliest_from(msgs, 1, ParseError)

RECURSIVE latest_from(_, _, _)
latest_from(msgs, k, latest) ==
    IF k > Len(msgs) THEN latest
    ELSE LET dt == fromisoformat(msgs[k].timestamp)
         IN  IF msgs[k].timestamp # EmptyTimestamp /\ dt # ParseError
                /\ (latest = ParseError \/ dt > latest)
             THEN latest_from(msgs, k + 1, dt)
             ELSE latest_from(msgs, k + 1, latest)

\* lines 421-422
latest_date(msgs) == latest_from(msgs, 1, ParseError)

\* line 485, rounded down to a whole percent
work_percentage(total, total_span) == (total * 100) \div total_span

\* the global call of calculate_total_time, line 445, on a timeline of
\* ZoneTimelines
InitZones ==
    /\ messages \in ZoneTimelines
    /\ pc = "outer"
    /\ i = 0
    /\ j = 0
    /\ start_time = 0
    /\ response_events = <<>>
    /\ assistant_msg_count = 0
    /\ tool_use_count = 0
    /\ total_time = 0
    /\ long_responses = <<>>
    /\ bursts = <<>>
    /\ cli_name = "claude-code"
    /\ group_by_project = FALSE
    /\ files = <<>>
    /\ f = 1
    /\ l = 1
    /\ all_messages = messages
    /\ messages_by_project = <<>>
    /\ phase = "global"
    /\ projects_done = 0
    /\ messages_by_date = CountDates(messages)
    /\ dedup_messages = <<>>
    /\ dedup_result = <<>>
    /\ view_messages = <<>>
    /\ view_pc = "end"
    /\ no_deduplicate = FALSE

SpecZones == InitZones /\ [][Next]_vars

-----------------------------------------------------------------------------
(* Vocabulary of the properties *)

RECURSIVE SumDurations(_)
SumDurations(periods) ==
    IF periods = <<>> THEN 0
    ELSE Head(periods).duration + SumDurations(Tail(periods))

MaxOf(S) == CHOOSE x \in S : \A y \in S : y <= x

Burst(n) == bursts[n]

BurstIds == 1 .. Len(bursts)

\* a genuine user question, as the glossary words it
Genuine(msg) ==
    /\ msg.type = "user"
    /\ msg.has_tool_result = FALSE
    /\ \E b \in 1 .. Len(msg.message.content) :
          /\ msg.message.content[b].type = "text"
          /\ \E c \in 1 .. Len(msg.message.content[b].text) :
                msg.message.content[b].text[c] # " "

Malformed(msg) == msg.timestamp.sfx # "Z"

\* the index of the first genuine question after index q, or the length
NextGenuine(q) ==
    LET later == { k \in (q + 1) .. (Len(messages) - 1) : Genuine(Msg(k)) }
    IN  IF later = {} THEN Len(messages)
        ELSE CHOOSE k \in later : \A m \in later : k <= m

\* the index of the first user message without tool result after index q
NextUser(q) ==
    LET later == { k \in (q + 1) .. (Len(messages) - 1) :
                      Msg(k).type = "user" /\ ~Msg(k).has_tool_result }
    IN  IF later = {} THEN Len(messages)
        ELSE CHOOSE k \in later : \A m \in later : k <= m

\* the burst has an entry in the long-response list
Appears(b) ==
    \E r \in 1 .. Len(long_responses) :
        /\ long_responses[r].start_time = b.events[1].time
        /\ long_responses[r].end_time = b.events[Len(b.events)].time
        /\ long_responses[r].total_duration = b.total_duration
        /\ long_responses[r].active_duration = b.active_duration
        /\ long_responses[r].idle_periods = b.idle_periods

Overlaps(p, from, to) == p.start < to /\ p.end > from

-----------------------------------------------------------------------------
(* C1: in every burst, the interval from an event with a tool invocation to *)
(* the next later event with a tool result is wholly active: no idle period *)
(* of the burst overlaps it, whatever events lie between the two.           *)
C1_ToolIntervalNeverIdle ==
    \A n \in BurstIds :
        LET ev == Burst(n).events
        IN  \A a \in 1 .. Len(ev) : \A r \in 1 .. Len(ev) :
               ( /\ a < r
                 /\ ev[a].has_tool_use
                 /\ ev[r].has_tool_result
                 /\ \A m \in (a + 1) .. (r - 1) : ~ev[m].has_tool_result )
               => \A p \in 1 .. Len(Burst(n).idle_periods) :
                     ~Overlaps(Burst(n).idle_periods[p], ev[a].time, ev[r].time)

(* C2: the burst of a genuine question holds every later assistant message  *)
(* and tool result up to the next genuine question; a blank user message in *)
(* between does not end it.                                                 *)
C2_BurstRunsToNextGenuine ==
    \A n \in BurstIds :
        LET q == Burst(n).question
            members == { k \in (q + 1) .. (NextGenuine(q) - 1) : IsResponse(Msg(k)) }
        IN  Len(Burst(n).events) - 1 = Cardinality(members)

(* C3 as stated: every burst whose total_span is exactly one hour is in the *)
(* long-response list, every burst one grid step short of it is not.        *)
C3_EveryHourLongBurstReported ==
    \A n \in BurstIds :
        /\ Burst(n).total_duration = LONG_RESPONSE_THRESHOLD => Appears(Burst(n))
        /\ Burst(n).total_duration = LONG_RESPONSE_THRESHOLD - 1 => ~Appears(Burst(n))

(* C3 amended: every burst whose total_span is exactly one hour and whose   *)
(* active_duration is positive is in the long-response list, and every      *)
(* burst one grid step short of one hour is not.                            *)
C3_CreditedHourLongBurstReported ==
    \A n \in BurstIds :
        /\ ( Burst(n).total_duration = LONG_RESPONSE_THRESHOLD
             /\ Burst(n).active_duration > 0 ) => Appears(Burst(n))
        /\ Burst(n).total_duration = LONG_RESPONSE_THRESHOLD - 1 => ~Appears(Burst(n))

C3_Witness ==
    \E n \in BurstIds :
        /\ Burst(n).total_duration = LONG_RESPONSE_THRESHOLD
        /\ Burst(n).active_duration > 0
        /\ Appears(Burst(n))

(* C4: for every burst, active_duration <= total_span, with equality        *)
(* exactly when there is no idle period; active_duration plus the idle      *)
(* durations is total_span.                                                 *)
C4_ActiveWithinSpan ==
    \A n \in BurstIds :
        /\ Burst(n).active_duration <= Burst(n).total_duration
        /\ Burst(n).active_duration = Burst(n).total_duration
              <=> Burst(n).idle_periods = <<>>
        /\ Burst(n).active_duration + SumDurations(Burst(n).idle_periods)
              = Burst(n).total_duration

C4_Witness ==
    \E n \in BurstIds :
        /\ Burst(n).idle_periods # <<>>
        /\ Burst(n).active_duration > 0
        /\ Burst(n).active_duration < Burst(n).total_duration

\* the burst the code builds from the question at index q holds a message
\* whose timestamp does not parse
BurstMalformed(q) == \E k \in q .. (NextUser(q) - 1) : Malformed(Msg(k))

\* the events of the burst of the question at index q, all timestamps parsing
EventsOf(q) ==
    SortEvents([k \in 1 .. (NextUser(q) - q) |->
        IF k = 1 THEN Event(fromisoformat(Msg(q).timestamp), FALSE, FALSE)
        ELSE Event(fromisoformat(Msg(q + k - 1).timestamp),
                   Msg(q + k - 1).has_tool_use, Msg(q + k - 1).has_tool_result)])

\* what the burst of the question at index q adds to total_time on its own
Contribution(q) == Walk(EventsOf(q)).active_duration

\* the genuine questions whose burst has only well-formed timestamps
GoodQuestions ==
    { q \in 0 .. (Len(messages) - 1) : Genuine(Msg(q)) /\ ~BurstMalformed(q) }

RECURSIVE SumContributions(_)
SumContributions(Q) ==
    IF Q = {} THEN 0
    ELSE LET q == CHOOSE x \in Q : TRUE
         IN  Contribution(q) + SumContributions(Q \ {q})

(* C6: a burst with a timestamp that does not parse, in its question or in  *)
(* one of its responses, gets no credit; the scan goes on to the end, and   *)
(* total_time and the long-response list are made of exactly the other      *)
(* bursts, each contributing what it contributes on its own.                *)
C6_MalformedBurstNoCredit ==
    /\ \A n \in BurstIds : ~BurstMalformed(Burst(n).question)
    /\ pc = "done" =>
          /\ total_time = SumContributions(GoodQuestions)
          /\ \A q \in GoodQuestions : \E n \in BurstIds : Burst(n).question = q
          /\ Len(long_responses) =
                Cardinality({ q \in GoodQuestions :
                                 /\ Contribution(q) > 0
                                 /\ TotalDuration(EventsOf(q)) >= LONG_RESPONSE_THRESHOLD })

C6_Witness ==
    /\ pc = "done"
    /\ total_time > 0
    /\ \E q \in 0 .. (Len(messages) - 1) :
          /\ Genuine(Msg(q))
          /\ ~Malformed(Msg(q))
          /\ \E k \in (q + 1) .. (NextUser(q) - 1) : Malformed(Msg(k))

(* C8: the outer scan enters the burst collection at a message exactly when *)
(* the message is a user message without tool result that has a text block  *)
(* with non-blank text (and its timestamp parses); any other message is      *)
(* passed over with no burst and no change of total_time.                   *)
C8_BurstStartsAtGenuineOnly ==
    [][ (pc = "outer" /\ i < Len(messages)) =>
          /\ (Genuine(Msg(i)) /\ ~Malformed(Msg(i)))
                <=> (pc' = "inner" /\ j' = i + 1 /\ i' = i)
          /\ ~Genuine(Msg(i)) =>
                /\ pc' = "outer"
                /\ i' = i + 1
                /\ total_time' = total_time
                /\ long_responses' = long_responses
                /\ bursts' = bursts ]_vars

C8_Witness ==
    /\ pc = "inner"
    /\ i > 0
    /\ Msg(i).message.content = TextLate
    /\ Msg(i - 1).type = "user"
    /\ ~Msg(i - 1).has_tool_result
    /\ ~Genuine(Msg(i - 1))
    /\ bursts = <<>>
    /\ total_time = 0

(* C9: the time from the last response event of a burst to the next user    *)
(* message is no part of the burst: the burst ends at the latest message    *)
(* before that user message, its span, its idle periods and its active      *)
(* duration all lie before it.                                              *)
C9_GapToNextQuestionExcluded ==
    \A n \in BurstIds :
        LET b == Burst(n)
            q == b.question
            k == NextUser(q)
            first == fromisoformat(Msg(q).timestamp)
            last == MaxOf({ fromisoformat(Msg(m).timestamp) : m \in q .. (k - 1) })
        IN  /\ Len(b.events) <= k - q
            /\ b.events[Len(b.events)].time = last
            /\ b.total_duration = last - first
            /\ \A p \in 1 .. Len(b.idle_periods) : b.idle_periods[p].end <= last
            /\ b.active_duration <= last - first

C9_Witness ==
    \E n \in BurstIds :
        LET b == Burst(n)
            k == NextUser(b.question)
        IN  /\ k < Len(messages)
            /\ Genuine(Msg(k))
            /\ ~Malformed(Msg(k))
            /\ fromisoformat(Msg(k).timestamp) - b.events[Len(b.events)].time
                  >= LONG_RESPONSE_THRESHOLD
            /\ b.active_duration > 0
            /\ b.idle_periods = <<>>

(* C10: in every long-response report the assistant message count is the    *)
(* number of collected messages of role assistant, and the tool invocation  *)
(* count is the number of collected messages with a tool invocation.        *)
C10_ReportCountsByRole ==
    \A n \in BurstIds :
        LET b == Burst(n)
            collected == (b.question + 1) .. (b.stop - 1)
        IN  b.reported =>
              /\ b.assistant_messages =
                    Cardinality({ k \in collected : Msg(k).type = "assistant" })
              /\ b.tool_uses =
                    Cardinality({ k \in collected : Msg(k).has_tool_use })

\* the list is in ascending order of its timestamp strings
Ascending(msgs) ==
    \A a \in 1 .. Len(msgs) : \A b \in 1 .. Len(msgs) :
        a < b => ~StrLess(msgs[b].timestamp, msgs[a].timestamp)

(* C5: every call of calculate_total_time made by get_stats, the global one *)
(* and each per-project one, receives its list in ascending timestamp order.*)
C5_EveryCallSorted ==
    pc \in {"outer", "inner", "done"} => Ascending(messages)

\* a user or assistant record whose message (payload) is an object with a
\* list of content blocks
WellFormed(line) ==
    /\ line.json
    /\ IF cli_name = "claude-code"
       THEN /\ line.type \in {"user", "assistant"}
            /\ line.message.t = "obj"
            /\ line.message.content.t = "list"
       ELSE /\ line.type = "response_item"
            /\ line.payload.t = "obj"
            /\ line.payload.role \in {"user", "assistant"}
            /\ line.payload.content.t = "list"

LinePositions == { <<x, y>> \in (1 .. Len(files)) \X (1 .. MaxLines + 1) : y <= Len(files[x]) }

(* C7: a malformed record affects only itself: once the files are read,     *)
(* every well-formed user or assistant record, before or after a malformed  *)
(* one, is in the message list (as often as it occurs in the files).        *)
C7_MalformedRecordAffectsOnlyItself ==
    (phase = "ingest" /\ f > Len(files)) =>
        \A pos \in LinePositions :
            LET line == files[pos[1]][pos[2]]
            IN  WellFormed(line) =>
                  Cardinality({ k \in 1 .. Len(all_messages) :
                                   all_messages[k] = parser_func(cli_name, line).message })
                  >= Cardinality({ other \in LinePositions :
                                      files[other[1]][other[2]] = line })

-----------------------------------------------------------------------------
(* Deduplication *)

\* the identity key of a message: the uuid when it is non-empty, otherwise the
\* timestamp and the first 100 characters of the body string
IdentityKey(msg) ==
    IF msg.uuid # "" THEN <<msg.uuid>>
    ELSE LET body == Repr(msg.message)
         IN  <<msg.timestamp,
               SubSeq(body, 1, IF Len(body) < 100 THEN Len(body) ELSE 100)>>

\* the identity keys of a list, position by position
KeySeq(msgs) == [k \in 1 .. Len(msgs) |-> IdentityKey(msgs[k])]

KeysOf(msgs) == { IdentityKey(msgs[k]) : k \in 1 .. Len(msgs) }

\* the positions that hold the first occurrence of their key
FirstPositions(keys) ==
    { k \in 1 .. Len(keys) : \A m \in 1 .. (k - 1) : keys[m] # keys[k] }

\* out is the subsequence of msgs at the positions of FirstPositions
IsFirstOccurrences(msgs, out) ==
    LET first == FirstPositions(KeySeq(msgs))
    IN  /\ Len(out) = Cardinality(first)
        /\ \A n \in 1 .. Len(out) :
              \E k \in first :
                 /\ Cardinality({ m \in first : m <= k }) = n
                 /\ out[n] = msgs[k]

\* no key is on two positions
OnePerKey(msgs) ==
    LET keys == KeySeq(msgs)
    IN  \A a \in 1 .. Len(keys) : \A b \in 1 .. Len(keys) :
           a # b => keys[a] # keys[b]

\* some uuid is on exactly two messages, every other key on exactly one
OneRecordTwice(msgs) ==
    LET keys == KeySeq(msgs)
    IN  \E a \in 1 .. Len(msgs) : \E b \in 1 .. Len(msgs) :
           /\ a < b
           /\ msgs[a].uuid # ""
           /\ msgs[a].uuid = msgs[b].uuid
           /\ \A c \in 1 .. Len(msgs) : \A d \in 1 .. Len(msgs) :
                 (c < d /\ keys[c] = keys[d]) => (c = a /\ d = b)

(* C11: what deduplicate_messages returns is the subsequence of its         *)
(* argument made of the first occurrence of each identity key, in input     *)
(* order: no two returned messages share a key, every key of the argument   *)
(* is returned once, and one record present twice under the same uuid       *)
(* lowers the count by one.                                                 *)
C11_FirstOccurrenceSubsequence ==
    /\ IsFirstOccurrences(dedup_messages, dedup_result)
    /\ OnePerKey(dedup_result)
    /\ KeysOf(dedup_result) = KeysOf(dedup_messages)
    /\ OneRecordTwice(dedup_messages) =>
          Len(dedup_result) = Len(dedup_messages) - 1

C11_Witness ==
    /\ phase = "global"
    /\ view_pc = "loaded"
    /\ Len(dedup_messages) = 4
    /\ Len(dedup_result) = 2
    /\ dedup_messages[1].uuid = ""
    /\ dedup_messages[2].uuid = ""
    /\ dedup_messages[1] # dedup_messages[2]
    /\ IdentityKey(dedup_messages[1]) = IdentityKey(dedup_messages[2])
    /\ dedup_messages[3].uuid # ""
    /\ dedup_messages[3].uuid = dedup_messages[4].uuid
    /\ dedup_messages[3] # dedup_messages[4]
    /\ dedup_result = <<dedup_messages[1], dedup_messages[3]>>

(* C12: deduplication is idempotent: deduplicating what                     *)
(* deduplicate_messages returned gives the same list again.                 *)
C12_Idempotent ==
    /\ deduplicate_messages(dedup_result) = dedup_result
    /\ deduplicate_messages(deduplicate_messages(dedup_messages))
          = deduplicate_messages(dedup_messages)

C12_Witness ==
    /\ phase = "global"
    /\ view_pc = "loaded"
    /\ Len(dedup_messages) = 4
    /\ Len(dedup_result) = 2
    /\ dedup_result = deduplicate_messages(dedup_messages)
    /\ IdentityKey(dedup_messages[1]) = IdentityKey(dedup_messages[2])
    /\ IdentityKey(dedup_messages[1]) = IdentityKey(dedup_messages[3])
    /\ IdentityKey(dedup_messages[1]) # IdentityKey(dedup_messages[4])

\* the lists that are permutations of msgs
Reorderings(msgs) ==
    { [k \in 1 .. Len(msgs) |-> msgs[p[k]]] :
         p \in { q \in [1 .. Len(msgs) -> 1 .. Len(msgs)] :
                    \A a \in 1 .. Len(msgs) : \E b \in 1 .. Len(msgs) : q[b] = a } }

(* C13: for every permutation of the list given to deduplicate_messages,    *)
(* the function returns the same set of identity keys and the same number   *)
(* of messages as for the list itself.                                      *)
C13_PermutationSameKeys ==
    \A other \in Reorderings(dedup_messages) :
        /\ KeysOf(deduplicate_messages(other)) = KeysOf(dedup_result)
        /\ Len(deduplicate_messages(other)) = Len(dedup_result)

C13_Witness ==
    /\ phase = "global"
    /\ view_pc = "loaded"
    /\ Len(dedup_messages) = 3
    /\ Len(dedup_result) = 2
    /\ IdentityKey(dedup_messages[1]) = IdentityKey(dedup_messages[3])
    /\ dedup_messages[1] # dedup_messages[3]
    /\ \E other \in Reorderings(dedup_messages) :
          /\ other # dedup_messages
          /\ deduplicate_messages(other) # dedup_result

-----------------------------------------------------------------------------
(* The per-date histogram *)

RECURSIVE SumCounts(_, _)
SumCounts(by_date, dates) ==
    IF dates = {} THEN 0
    ELSE LET d == CHOOSE x \in dates : TRUE
         IN  by_date[d] + SumCounts(by_date, dates \ {d})

\* the messages of the list whose timestamp is non-empty and parses
Dated(msgs) ==
    { k \in 1 .. Len(msgs) : fromisoformat(msgs[k].timestamp) # ParseError }

(* C14: once get_stats has deduplicated and sorted, the counts of the       *)
(* per-date histogram add up to the number of messages of the deduplicated  *)
(* timeline that have a parseable timestamp: a record present in two files  *)
(* is counted once.                                                         *)
C14_HistogramOfDeduplicated ==
    phase \in {"global", "projects", "end"} =>
        SumCounts(messages_by_date, DOMAIN messages_by_date)
           = Cardinality(Dated(all_messages))

-----------------------------------------------------------------------------
(* The two cursors *)

\* the message at index k was collected as a response event by a burst
Consumed(k) ==
    \E n \in BurstIds : Burst(n).question < k /\ k < Burst(n).stop

(* C15 as stated: when a burst that started at index i has been processed   *)
(* and its inner scan stopped at index j, the outer cursor goes to j, so no *)
(* message between i and j is examined again.                               *)
C15_OuterResumesAtStop ==
    [][ (pc = "inner" /\ pc' = "outer" /\ bursts' # bursts) => i' = j ]_vars

(* C15 amended: when a burst that started at index i has been processed,    *)
(* the outer cursor goes to i + 1 wherever the inner scan stopped; every    *)
(* message between i and j is examined again by the outer scan, which       *)
(* passes over it: no burst starts there and nothing is credited.           *)
C15_OuterResumesAfterQuestion ==
    [][ /\ (pc = "inner" /\ pc' = "outer") => i' = i + 1
        /\ (pc = "outer" /\ i < Len(messages) /\ Consumed(i)) =>
              /\ pc' = "outer"
              /\ i' = i + 1
              /\ total_time' = total_time
              /\ long_responses' = long_responses
              /\ bursts' = bursts ]_vars

C15_Witness ==
    /\ pc = "outer"
    /\ i < Len(messages)
    /\ \E n \in BurstIds :
          /\ Burst(n).question + 2 = i
          /\ Burst(n).stop = Burst(n).question + 3
          /\ Burst(n).stop < Len(messages)
          /\ Burst(n).active_duration > 0

-----------------------------------------------------------------------------
(* The classification of gaps *)

\* the gap after position k of the events is an idle one as the rule words it
IdleGap(ev, k) ==
    /\ ev[k + 1].time - ev[k].time > 30
    /\ ~(ev[k].has_tool_use /\ ev[k + 1].has_tool_result)

RECURSIVE SumActiveGaps(_, _)
SumActiveGaps(ev, k) ==
    IF k >= Len(ev) THEN 0
    ELSE (IF IdleGap(ev, k) THEN 0 ELSE ev[k + 1].time - ev[k].time)
         + SumActiveGaps(ev, k + 1)

(* C16: for each pair of consecutive events of a burst, the gap is an idle  *)
(* period (start, end, duration) exactly when it is longer than 30 minutes  *)
(* and not (tool invocation before, tool result after); every other gap is  *)
(* added whole to active_duration.                                          *)
C16_GapClassification ==
    \A n \in BurstIds :
        LET ev == Burst(n).events
            idle == Burst(n).idle_periods
        IN  /\ \A k \in 1 .. (Len(ev) - 1) :
                  IdleGap(ev, k) <=>
                     \E p \in 1 .. Len(idle) :
                        idle[p] = [start    |-> ev[k].time,
                                   end      |-> ev[k + 1].time,
                                   duration |-> ev[k + 1].time - ev[k].time]
            /\ Len(idle) = Cardinality({ k \in 1 .. (Len(ev) - 1) : IdleGap(ev, k) })
            /\ Burst(n).active_duration = SumActiveGaps(ev, 1)

C16_Witness ==
    \E n \in BurstIds :
        LET ev == Burst(n).events
        IN  /\ Len(ev) = 4
            /\ ev[2].has_tool_use
            /\ ev[3].has_tool_result
            /\ ev[3].time - ev[2].time > LONG_RESPONSE_THRESHOLD
            /\ ev[4].time - ev[3].time = IDLE_THRESHOLD
            /\ Burst(n).idle_periods = <<>>
            /\ Burst(n).active_duration = ev[4].time - ev[1].time

(* C17: a user message with has_tool_result neither starts nor ends a       *)
(* burst: the outer scan passes over it, and the inner scan appends it as   *)
(* a response event with has_tool_result true and goes on (its timestamp    *)
(* parsing).                                                                *)
C17_ToolResultCarrier ==
    [][ /\ ( /\ pc = "outer"
             /\ i < Len(messages)
             /\ Msg(i).type = "user"
             /\ Msg(i).has_tool_result ) =>
               /\ pc' = "outer"
               /\ i' = i + 1
               /\ bursts' = bursts
               /\ total_time' = total_time
        /\ ( /\ pc = "inner"
             /\ j < Len(messages)
             /\ Msg(j).type = "user"
             /\ Msg(j).has_tool_result
             /\ ~Malformed(Msg(j)) ) =>
               /\ pc' = "inner"
               /\ j' = j + 1
               /\ i' = i
               /\ bursts' = bursts
               /\ response_events' =
                     Append(response_events,
                            [time            |-> fromisoformat(Msg(j).timestamp),
                             has_tool_use    |-> Msg(j).has_tool_use,
                             has_tool_result |-> TRUE]) ]_vars

\* the inner scan went past a tool result that carries a text, and the outer
\* scan passed over a tool result before the question
C17_Witness ==
    /\ pc = "inner"
    /\ i = 1
    /\ Msg(0).type = "user"
    /\ Msg(0).has_tool_result
    /\ j = 3
    /\ j < Len(messages)
    /\ Msg(2).type = "user"
    /\ Msg(2).has_tool_result
    /\ Genuine([Msg(2) EXCEPT !.has_tool_result = FALSE])
    /\ Len(response_events) = 2
    /\ response_events[2].has_tool_result
    /\ bursts = <<>>

-----------------------------------------------------------------------------
(* Termination *)

(* C19: calculate_total_time terminates on every list: every return to the  *)
(* outer loop test has advanced i by one, every inner iteration that does   *)
(* not leave the loop has advanced j by one, neither cursor passes the end  *)
(* of the list, and the function returns; on the empty list it returns a    *)
(* zero duration and an empty long-response list.                           *)
C19_Terminates ==
    /\ <>(pc = "done")
    /\ [][ /\ (pc' = "outer") => (i' = i + 1)
           /\ (pc = "inner" /\ pc' = "inner") => (j' = j + 1)
           /\ (pc = "outer" /\ pc' = "inner") => (i' = i /\ j' = i + 1) ]_vars
    /\ [](i <= Len(messages) /\ j <= Len(messages))
    /\ []((pc = "done" /\ messages = <<>>) =>
             (total_time = 0 /\ long_responses = <<>>))

C19_Witness ==
    /\ pc = "done"
    /\ Len(messages) = 4
    /\ i = 4
    /\ j = 4
    /\ Len(bursts) = 2
    /\ \E k \in 0 .. 3 : IsUserNoToolResult(Msg(k)) /\ ~has_content(Msg(k))

-----------------------------------------------------------------------------
(* Bursts do not share messages *)

(* C20: every message is a response event of at most one burst, and no      *)
(* message collected as a response event starts a burst when the outer      *)
(* cursor passes over it later: a burst starts no earlier than where every  *)
(* earlier burst stopped, the messages collected so far are no questions,   *)
(* and the time spans of two bursts do not overlap, so no gap is counted    *)
(* twice.                                                                   *)
C20_NoMessageInTwoBursts ==
    /\ \A n \in BurstIds : \A m \in BurstIds :
          n < m =>
             /\ Burst(n).stop <= Burst(m).question
             /\ Burst(n).events[Len(Burst(n).events)].time <= Burst(m).events[1].time
    /\ \A n \in BurstIds :
          \A k \in (Burst(n).question + 1) .. (Burst(n).stop - 1) : ~IsQuestionAt(k)
    /\ pc = "inner" =>
          /\ \A n \in BurstIds : Burst(n).stop <= i
          /\ \A k \in (i + 1) .. (j - 1) : ~IsQuestionAt(k)

C20_Witness ==
    /\ pc = "done"
    /\ Len(bursts) = 2
    /\ Burst(1).question = 0
    /\ Burst(1).stop = 2
    /\ Msg(1).type = "assistant"
    /\ Burst(2).question = 2
    /\ Burst(2).stop = 4
    /\ total_time = Burst(1).active_duration + Burst(2).active_duration
    /\ Burst(1).active_duration > 0
    /\ Burst(2).active_duration > 0

-----------------------------------------------------------------------------
(* The two orders of sorting and deduplicating *)

(* C18: from one loaded list, get_stats (deduplicate, then sort) and        *)
(* view_chat_history (sort, then deduplicate) both arrive at a timeline in  *)
(* ascending timestamp order, the two with the same set of identity keys    *)
(* and one message per key.                                                 *)
C18_EitherOrderSameKeys ==
    (phase = "global" /\ view_pc = "deduped") =>
        /\ Ascending(all_messages)
        /\ Ascending(view_messages)
        /\ KeysOf(all_messages) = KeysOf(view_messages)
        /\ OnePerKey(all_messages)
        /\ OnePerKey(view_messages)

\* the two timelines keep different records of one uuid
C18_Witness ==
    /\ phase = "global"
    /\ view_pc = "deduped"
    /\ Len(all_messages) = 3
    /\ Len(view_messages) = 3
    /\ all_messages # view_messages
    /\ \E a \in 1 .. 3 : \E b \in 1 .. 3 :
          /\ all_messages[a].uuid # ""
          /\ all_messages[a].uuid = view_messages[b].uuid
          /\ all_messages[a].timestamp # view_messages[b].timestamp

-----------------------------------------------------------------------------
(* The work-time percentage *)

\* every timestamp of the list parses
AllParse(msgs) ==
    \A k \in 1 .. Len(msgs) : fromisoformat(msgs[k].timestamp) # ParseError

\* the instants of the list do not go back
Chronological(msgs) ==
    \A a \in 1 .. Len(msgs) : \A b \in 1 .. Len(msgs) :
        a < b => fromisoformat(msgs[a].timestamp) <= fromisoformat(msgs[b].timestamp)

(* C21: when calculate_total_time returns on a list whose timestamps all    *)
(* parse and do not go back, total_time is at most the last timestamp minus *)
(* the first; and for the list get_stats hands to its global call, all      *)
(* timestamps parsing, the work-time percentage it reports is at most 100.  *)
C21_TotalTimeWithinSpan ==
    (pc = "done" /\ messages # <<>> /\ AllParse(messages)) =>
        /\ Chronological(messages) =>
              total_time <= fromisoformat(messages[Len(messages)].timestamp)
                               - fromisoformat(messages[1].timestamp)
        /\ ( /\ phase = "global"
             /\ Ascending(all_messages)
             /\ latest_date(all_messages) - earliest_date(all_messages) > 0 ) =>
              work_percentage(total_time,
                  latest_date(all_messages) - earliest_date(all_messages)) <= 100

====
